---- MODULE Spec2Model ----
(***************************************************************************)
(* NitiCheck risk engine: backend/app/utils/text_cleaner.py and            *)
(* backend/app/services/risk_analyzer.py.                                  *)
(*                                                                         *)
(* Text is a TLA+ string; positions are 1-based (Python position p is      *)
(* position p + 1 here).  Regular expressions are sequences of tokens run  *)
(* by a backtracking matcher with Python's greedy priorities.              *)
(***************************************************************************)
EXTENDS Integers, Sequences, FiniteSets, TLC

\* ------------------------------------------------------------------------
\* Characters and strings
\* ------------------------------------------------------------------------
Char(s, i) == SubSeq(s, i, i)

StrSet(s) == { Char(s, i) : i \in 1..Len(s) }

LowerAlpha == "abcdefghijklmnopqrstuvwxyz"
UpperAlpha == "ABCDEFGHIJKLMNOPQRSTUVWXYZ"
DigitChars == "0123456789"

\* \s of the re module on the ASCII range
Space == {" ", "\t", "\n", "\r", "\f"}
\* \d
Digit == StrSet(DigitChars)
\* \w
Word == StrSet(LowerAlpha) \cup StrSet(UpperAlpha) \cup Digit \cup {"_"}

Min(a, b) == IF a < b THEN a ELSE b
Max(a, b) == IF a > b THEN a ELSE b

\* str.lower() on one character
UpperSet == StrSet(UpperAlpha)

LowerChar(c) ==
    IF c \in UpperSet
    THEN Char(LowerAlpha, CHOOSE i \in 1..Len(UpperAlpha) : Char(UpperAlpha, i) = c)
    ELSE c

RECURSIVE LowerRange(_, _, _)
\* the characters lo..hi of s in lower case (by halves: the depth of the
\* recursion stays logarithmic in the length)
LowerRange(s, lo, hi) ==
    IF lo > hi THEN ""
    ELSE IF lo = hi THEN LowerChar(Char(s, lo))
    ELSE LET mid == (lo + hi) \div 2
         IN  LowerRange(s, lo, mid) \o LowerRange(s, mid + 1, hi)

\* str.lower()
Lower(s) == LowerRange(s, 1, Len(s))

\* s[:n]
Prefix(s, n) == SubSeq(s, 1, Min(n, Len(s)))

SetMin(S) == CHOOSE x \in S : \A y \in S : x <= y
SetMax(S) == CHOOSE x \in S : \A y \in S : x >= y

\* str.strip()
Strip(s) ==
    LET kept == { i \in 1..Len(s) : Char(s, i) \notin Space }
    IN  IF kept = {} THEN "" ELSE SubSeq(s, SetMin(kept), SetMax(kept))

\* ------------------------------------------------------------------------
\* Regular expressions (re.search / re.findall / re.split)
\* ------------------------------------------------------------------------
\* a literal string
Lit(s) == [k |-> "lit", s |-> s]
\* a greedy repetition of a character class: X+ (min 1, many), X* (min 0,
\* many), X? (min 0, not many)
Rep(chars, min, many) == [k |-> "rep", chars |-> chars, min |-> min, many |-> many]
\* \b
Bnd == [k |-> "b"]
\* the closing parenthesis of capture group 1
Mark == [k |-> "mark"]
\* (?:a|b|c)?
OptAlt(alts) == [k |-> "optalt", alts |-> alts]
\* (?:\s+|$)
WsOrEnd == [k |-> "wsend"]

Ws1 == Rep(Space, 1, TRUE)
Ws0 == Rep(Space, 0, TRUE)

RECURSIVE RunLen(_, _, _)
\* the length of the longest run of characters of chars starting at i
RunLen(text, i, chars) ==
    IF i <= Len(text) /\ Char(text, i) \in chars
    THEN 1 + RunLen(text, i + 1, chars)
    ELSE 0

IsWordAt(text, i) == i >= 1 /\ i <= Len(text) /\ Char(text, i) \in Word

\* \b holds between positions i - 1 and i
IsBoundary(text, i) == IsWordAt(text, i - 1) # IsWordAt(text, i)

\* $ : at the end, or before a newline that ends the string
AtEnd(text, i) == i = Len(text) + 1 \/ (i = Len(text) /\ Char(text, i) = "\n")

RECURSIVE MatchEnd(_, _, _, _, _)
RECURSIVE TryCounts(_, _, _, _, _, _, _)
RECURSIVE TryAlts(_, _, _, _, _, _)

\* Tokens k.. of pat matched at position i: <<end, mark>> of the first match
\* in priority order (end is the position after the match), <<>> if none.
MatchEnd(pat, k, text, i, m) ==
    IF k > Len(pat) THEN <<i, m>>
    ELSE LET t == pat[k] IN
      CASE t.k = "lit" ->
             IF i + Len(t.s) - 1 <= Len(text) /\ SubSeq(text, i, i + Len(t.s) - 1) = t.s
             THEN MatchEnd(pat, k + 1, text, i + Len(t.s), m)
             ELSE <<>>
        [] t.k = "rep" ->
             LET run == RunLen(text, i, t.chars)
                 hi  == IF t.many THEN run ELSE Min(run, 1)
             IN  TryCounts(pat, k, text, i, m, hi, t.min)
        [] t.k = "b" ->
             IF IsBoundary(text, i) THEN MatchEnd(pat, k + 1, text, i, m) ELSE <<>>
        [] t.k = "mark" -> MatchEnd(pat, k + 1, text, i, i)
        [] t.k = "optalt" -> TryAlts(pat, k, text, i, m, 1)
        [] t.k = "wsend" ->
             LET r == TryCounts(pat, k, text, i, m, RunLen(text, i, Space), 1)
             IN  IF r # <<>> THEN r
                 ELSE IF AtEnd(text, i) THEN MatchEnd(pat, k + 1, text, i, m)
                 ELSE <<>>

\* greedy: the longest count first, down to lo
TryCounts(pat, k, text, i, m, n, lo) ==
    IF n < lo THEN <<>>
    ELSE LET r == MatchEnd(pat, k + 1, text, i + n, m)
         IN  IF r # <<>> THEN r ELSE TryCounts(pat, k, text, i, m, n - 1, lo)

\* the alternatives in order, then the empty match
TryAlts(pat, k, text, i, m, a) ==
    IF a > Len(pat[k].alts) THEN MatchEnd(pat, k + 1, text, i, m)
    ELSE LET s == pat[k].alts[a]
             r == IF i + Len(s) - 1 <= Len(text) /\ SubSeq(text, i, i + Len(s) - 1) = s
                  THEN MatchEnd(pat, k + 1, text, i + Len(s), m)
                  ELSE <<>>
         IN  IF r # <<>> THEN r ELSE TryAlts(pat, k, text, i, m, a + 1)

\* re.search from position pos: <<start, end, mark>> of the leftmost match,
\* <<>> if there is none
SearchFrom(pat, text, pos) ==
    LET starts == { p \in pos..(Len(text) + 1) : MatchEnd(pat, 1, text, p, 0) # <<>> }
    IN  IF starts = {} THEN <<>>
        ELSE LET p == SetMin(starts)
                 r == MatchEnd(pat, 1, text, p, 0)
             IN  <<p, r[1], r[2]>>

Search(pat, text) == SearchFrom(pat, text, 1)

RECURSIVE FindAllFrom(_, _, _)
\* the non-overlapping matches, left to right (no pattern here matches the
\* empty string)
FindAllFrom(pat, text, pos) ==
    LET r == SearchFrom(pat, text, pos)
    IN  IF r = <<>> THEN <<>> ELSE <<r>> \o FindAllFrom(pat, text, r[2])

FindAll(pat, text) == FindAllFrom(pat, text, 1)

\* ------------------------------------------------------------------------
\* text_cleaner.py
\* ------------------------------------------------------------------------
RECURSIVE CollapseRange(_, _, _)
\* re.sub(r'\s+', ' ', text) on the characters lo..hi: the first character of
\* a whitespace run becomes one space, the rest of the run nothing
CollapseRange(s, lo, hi) ==
    IF lo > hi THEN ""
    ELSE IF lo = hi
    THEN IF Char(s, lo) \notin Space THEN Char(s, lo)
         ELSE IF lo > 1 /\ Char(s, lo - 1) \in Space THEN "" ELSE " "
    ELSE LET mid == (lo + hi) \div 2
         IN  CollapseRange(s, lo, mid) \o CollapseRange(s, mid + 1, hi)

clean_text(text) == IF text = "" THEN "" ELSE Strip(CollapseRange(text, 1, Len(text)))

\* r'\n\s*\n+'
ParagraphBreak == <<Lit("\n"), Ws0, Rep({"\n"}, 1, TRUE)>>
\* r'([.!?]+(?:\s+|$))'
SentenceEnd == <<Rep({".", "!", "?"}, 1, TRUE), WsOrEnd>>

RECURSIVE PiecesFrom(_, _, _, _)
\* re.split without a capture group: the text between the matches
PiecesFrom(text, ms, j, pos) ==
    IF j > Len(ms) THEN <<SubSeq(text, pos, Len(text))>>
    ELSE <<SubSeq(text, pos, ms[j][1] - 1)>> \o PiecesFrom(text, ms, j + 1, ms[j][2])

\* re.split(r'\n\s*\n+', text)
ParagraphsOf(text) == PiecesFrom(text, FindAll(ParagraphBreak, text), 1, 1)

RECURSIVE SegmentsFrom(_, _, _, _)
\* sentences[i] + sentences[i + 1] for the even i of the re.split with the
\* capture group: each piece with the separator that follows it, and the last
\* piece alone
SegmentsFrom(text, ms, j, pos) ==
    IF j > Len(ms) THEN <<SubSeq(text, pos, Len(text))>>
    ELSE <<SubSeq(text, pos, ms[j][2] - 1)>> \o SegmentsFrom(text, ms, j + 1, ms[j][2])

SentencesOf(paragraph) == SegmentsFrom(paragraph, FindAll(SentenceEnd, paragraph), 1, 1)

\* the short sentence joined to the buffer without the space
Accumulate_NoSpace(current_clause, sentence) == current_clause \o sentence

\* "Accumulate short sentences"
Accumulate(current_clause, sentence) ==
    IF current_clause # "" THEN current_clause \o " " \o sentence ELSE sentence

\* The body of the loop over the sentences of one paragraph, on the state
\* st = [clauses, current_clause, flushed]; flushed records the buffers the
\* long-sentence branch appended.
SegmentStep(st, raw, min_length) ==
    LET sentence == clean_text(raw) IN
    IF sentence = "" THEN st
    ELSE IF Len(sentence) >= min_length
    THEN IF st.current_clause # ""
         THEN [clauses |-> st.clauses \o <<st.current_clause, sentence>>,
               current_clause |-> "",
               flushed |-> Append(st.flushed, st.current_clause)]
         ELSE [st EXCEPT !.clauses = Append(@, sentence)]
    ELSE LET acc == Accumulate(st.current_clause, sentence)
         IN  IF Len(acc) >= min_length
             THEN [st EXCEPT !.clauses = Append(@, acc), !.current_clause = ""]
             ELSE [st EXCEPT !.current_clause = acc]

\* "Add remaining accumulated clause"
ParagraphEnd(st, min_length) ==
    IF st.current_clause # "" /\ Len(st.current_clause) >= min_length
    THEN [st EXCEPT !.clauses = Append(@, st.current_clause)]
    ELSE st

RECURSIVE WalkSentences(_, _, _, _)
WalkSentences(st, sentences, i, min_length) ==
    IF i > Len(sentences) THEN ParagraphEnd(st, min_length)
    ELSE WalkSentences(SegmentStep(st, sentences[i], min_length), sentences, i + 1, min_length)

\* the indices the final filter keeps, in order
Kept(clauses, min_length) ==
    SelectSeq([k \in 1..Len(clauses) |-> k], LAMBDA k : Len(clauses[k]) >= min_length)

\* the list returned as it is
FilterShort_None(clauses, min_length) == clauses

\* "Filter out very short clauses"
FilterShort(clauses, min_length) ==
    LET kept == Kept(clauses, min_length)
    IN  [j \in 1..Len(kept) |-> clauses[kept[j]]]

\* "current_clause = ''" on entering a paragraph
EnterParagraph(st) == [st EXCEPT !.current_clause = ""]

RECURSIVE WalkParagraphs(_, _, _, _)
WalkParagraphs(st, paragraphs, p, min_length) ==
    IF p > Len(paragraphs) THEN st
    ELSE LET paragraph == clean_text(paragraphs[p])
         IN  IF Len(paragraph) < min_length
             THEN WalkParagraphs(st, paragraphs, p + 1, min_length)
             ELSE WalkParagraphs(
                      WalkSentences(EnterParagraph(st), SentencesOf(paragraph), 1,
                                    min_length),
                      paragraphs, p + 1, min_length)

EmptySplit == [clauses |-> <<>>, current_clause |-> "", flushed |-> <<>>]

split_into_clauses(text, min_length) ==
    IF text = "" THEN <<>>
    ELSE FilterShort(
             WalkParagraphs(EmptySplit, ParagraphsOf(text), 1, min_length).clauses,
             min_length)

\* The longest generated input of extract_numbers
MaxNumTextLen == 4

\* Floats are held as integers scaled by Scale; a literal of the modelled
\* texts carries at most MaxFracDigits fractional digits.
MaxFracDigits == MaxNumTextLen - 2

RECURSIVE Pow10(_)
Pow10(n) == IF n = 0 THEN 1 ELSE 10 * Pow10(n - 1)

Scale == Pow10(MaxFracDigits)

DigitVal(c) == (CHOOSE i \in 1..10 : Char(DigitChars, i) = c) - 1

RECURSIVE DigitsVal(_, _)
\* the value of the digit string s, continuing from acc
DigitsVal(s, acc) ==
    IF s = "" THEN acc ELSE DigitsVal(Tail(s), 10 * acc + DigitVal(Head(s)))

\* what float() accepts among the strings the two patterns capture
IsFloatLiteral(s) ==
    LET n == RunLen(s, 1, Digit) IN
    /\ n >= 1
    /\ \/ n = Len(s)
       \/ /\ Char(s, n + 1) = "."
          /\ RunLen(s, n + 2, Digit) = Len(s) - n - 1

\* float(s), scaled
ParseFloat(s) ==
    LET n    == RunLen(s, 1, Digit)
        frac == SubSeq(s, n + 2, Len(s))
    IN  DigitsVal(SubSeq(s, 1, n), 0) * Scale
          + DigitsVal(frac, 0) * Pow10(MaxFracDigits - Len(frac))

\* r'(\d+\.?\d*)\s*%'
percentage_pattern ==
    <<Rep(Digit, 1, TRUE), Rep({"."}, 0, FALSE), Rep(Digit, 0, TRUE), Mark, Ws0, Lit("%")>>
\* r'\b(\d+\.?\d*)\b'
number_pattern ==
    <<Bnd, Rep(Digit, 1, TRUE), Rep({"."}, 0, FALSE), Rep(Digit, 0, TRUE), Mark, Bnd>>

\* re.findall with one capture group: the captured strings
Groups(pat, text) ==
    LET ms == FindAll(pat, text)
    IN  [j \in 1..Len(ms) |-> SubSeq(text, ms[j][1], ms[j][3] - 1)]

\* the two passes joined the other way round
JoinPasses_Reversed(percentages, numbers) == numbers \o percentages

\* "for num_str in percentages + numbers"
JoinPasses(percentages, numbers) == percentages \o numbers

RECURSIVE ToFloats(_, _)
\* float() of each string, a string float() rejects is dropped
ToFloats(strs, j) ==
    IF j > Len(strs) THEN <<>>
    ELSE IF IsFloatLiteral(strs[j])
         THEN <<ParseFloat(strs[j])>> \o ToFloats(strs, j + 1)
         ELSE ToFloats(strs, j + 1)

extract_numbers(text) ==
    ToFloats(JoinPasses(Groups(percentage_pattern, text), Groups(number_pattern, text)), 1)

\* ------------------------------------------------------------------------
\* risk_analyzer.py
\* ------------------------------------------------------------------------
RECURSIVE PhraseFrom(_, _)
PhraseFrom(ws, j) ==
    IF j = Len(ws) THEN <<Lit(ws[j])>>
    ELSE <<Lit(ws[j]), Ws1>> \o PhraseFrom(ws, j + 1)

\* w1\s+w2\s+...\s+wn
Phrase(ws) == PhraseFrom(ws, 1)

\* \bw1\s+...\s+wn\b
BPhraseB(ws) == <<Bnd>> \o Phrase(ws) \o <<Bnd>>
\* \bw1\s+...\s+wn\s+
BPhraseWs(ws) == <<Bnd>> \o Phrase(ws) \o <<Ws1>>

NEGATIVE_INDICATORS == <<
    BPhraseWs(<<"no">>),
    BPhraseWs(<<"not">>),
    BPhraseWs(<<"without">>),
    <<Bnd, Lit("waive"), Rep({"d"}, 0, FALSE), Bnd>>,
    BPhraseB(<<"exempt">>),
    BPhraseB(<<"excluded">>),
    BPhraseB(<<"not", "applicable">>),
    BPhraseWs(<<"does", "not">>),
    BPhraseWs(<<"will", "not">>),
    BPhraseWs(<<"shall", "not">>),
    BPhraseWs(<<"may", "not">>),
    BPhraseB(<<"cannot">>),
    BPhraseB(<<"prohibited">>),
    BPhraseB(<<"forbidden">>),
    BPhraseB(<<"unavailable">>),
    BPhraseB(<<"not", "subject", "to">>),
    BPhraseB(<<"not", "liable", "for">>),
    BPhraseB(<<"no", "charge", "for">>),
    BPhraseB(<<"no", "fee", "for">>),
    BPhraseB(<<"no", "penalty">>),
    BPhraseB(<<"penalty", "waived">>),
    BPhraseB(<<"fee", "waived">>),
    BPhraseB(<<"no", "interest">>),
    BPhraseB(<<"interest", "free">>),
    BPhraseB(<<"zero", "interest">>) >>

\* [-\s]?
DashOrSpace == Rep({"-"} \cup Space, 0, FALSE)

\* "threshold": 18.0
HighInterestThreshold == 18

Pattern(key, keywords, has_threshold, threshold, risk_type, base_severity) ==
    [key |-> key, keywords |-> keywords, has_threshold |-> has_threshold,
     threshold |-> threshold, risk_type |-> risk_type, base_severity |-> base_severity]

\* The entries of the dict literal RISK_PATTERNS, as written.
PatternEntries == <<
    Pattern("high_interest",
        << Phrase(<<"interest", "rate">>),
           <<Lit("apr"), Ws0, OptAlt(<<"of", "is", "at">>)>>,
           Phrase(<<"annual", "percentage", "rate">>),
           Phrase(<<"interest", "charged">>),
           Phrase(<<"rate", "of", "interest">>) >>,
        TRUE, HighInterestThreshold * Scale, "High Interest Rate", "High"),
    Pattern("hidden_fees",
        << Phrase(<<"hidden", "fee">>),
           Phrase(<<"administrative", "fee">>),
           Phrase(<<"processing", "fee">>),
           Phrase(<<"service", "charge">>),
           Phrase(<<"convenience", "fee">>),
           Phrase(<<"maintenance", "fee">>),
           Phrase(<<"annual", "fee">>),
           Phrase(<<"late", "fee">>),
           Phrase(<<"overdraft", "fee">>),
           Phrase(<<"transaction", "fee">>),
           Phrase(<<"application", "fee">>),
           Phrase(<<"origination", "fee">>) >>,
        FALSE, 0, "Hidden Fees", "Medium"),
    Pattern("penalty_clauses",
        << Phrase(<<"penalty">>),
           Phrase(<<"penal", "interest">>),
           Phrase(<<"default", "rate">>),
           Phrase(<<"penalty", "charge">>),
           Phrase(<<"penalty", "fee">>),
           Phrase(<<"breach", "penalty">>),
           Phrase(<<"violation", "penalty">>) >>,
        FALSE, 0, "Penalty Clauses", "High"),
    Pattern("auto_renewal",
        << <<Lit("auto"), DashOrSpace, Lit("renew")>>,
           Phrase(<<"automatic", "renewal">>),
           <<Lit("auto"), DashOrSpace, Lit("extend")>>,
           Phrase(<<"automatic", "extension">>),
           Phrase(<<"renew", "automatically">>),
           Phrase(<<"continuous", "renewal">>) >>,
        FALSE, 0, "Auto-Renewal", "Medium"),
    Pattern("one_sided_termination",
        << Phrase(<<"sole", "discretion">>),
           Phrase(<<"without", "notice">>),
           Phrase(<<"terminate", "at", "any", "time">>),
           Phrase(<<"termination", "without", "cause">>),
           Phrase(<<"unilateral", "termination">>),
           Phrase(<<"terminate", "immediately">>),
           Phrase(<<"at", "our", "discretion">>),
           Phrase(<<"we", "may", "terminate">>),
           Phrase(<<"reserve", "the", "right", "to", "terminate">>) >>,
        FALSE, 0, "One-Sided Termination", "High"),
    Pattern("arbitration_clause",
        << Phrase(<<"binding", "arbitration">>),
           Phrase(<<"mandatory", "arbitration">>),
           Phrase(<<"waive", "right", "to", "sue">>),
           Phrase(<<"class", "action", "waiver">>),
           Phrase(<<"dispute", "resolution", "by", "arbitration">>) >>,
        FALSE, 0, "Arbitration Clause", "Low"),
    Pattern("variable_rate",
        << Phrase(<<"variable", "rate">>),
           Phrase(<<"adjustable", "rate">>),
           Phrase(<<"rate", "may", "change">>),
           Phrase(<<"rate", "subject", "to", "change">>),
           Phrase(<<"floating", "rate">>) >>,
        FALSE, 0, "Variable Interest Rate", "Medium"),
    Pattern("prepayment_penalty",
        << Phrase(<<"prepayment", "penalty">>),
           Phrase(<<"early", "payment", "penalty">>),
           Phrase(<<"prepayment", "charge">>),
           Phrase(<<"early", "termination", "fee">>) >>,
        FALSE, 0, "Prepayment Penalty", "Medium") >>

\* the entries with the third and the last one exchanged: prepayment_penalty
\* visited before penalty_clauses
Items_PrepaymentFirst(entries) ==
    [k \in 1..Len(entries) |->
        IF k = 3 THEN entries[Len(entries)]
        ELSE IF k = Len(entries) THEN entries[3]
        ELSE entries[k]]

\* ".items()": a dict iterates in insertion order
Items(entries) == entries

\* The catalog in the order the loop over RISK_PATTERNS.items() visits it.
RISK_PATTERNS == Items(PatternEntries)

NumPatterns == Len(RISK_PATTERNS)

\* the width of the window _has_negative_context reads before the match
NegationWindow == 50

\* context_start without the max(0, ...): a negative start counts from the
\* end of the clause, as slices do
ContextBefore_Unclamped(clause_lower, pos) ==
    LET start == (pos - 1) - NegationWindow
        from  == IF start >= 0 THEN start ELSE Max(0, Len(clause_lower) + start)
    IN  SubSeq(clause_lower, from + 1, pos - 1)

\* the text _has_negative_context searches: clause_lower[context_start:pos],
\* pos the 1-based position of the keyword match
ContextBefore(clause_lower, pos) ==
    SubSeq(clause_lower, Max(0, (pos - 1) - NegationWindow) + 1, pos - 1)

_has_negative_context(clause_lower, pos) ==
    \E n \in 1..Len(NEGATIVE_INDICATORS) :
        Search(NEGATIVE_INDICATORS[n], ContextBefore(clause_lower, pos)) # <<>>

RECURSIVE FirstKeywordFrom(_, _, _)
FirstKeywordFrom(keywords, j, clause_lower) ==
    IF j > Len(keywords) THEN <<0, 0>>
    ELSE LET m == Search(keywords[j], clause_lower)
         IN  IF m # <<>> THEN <<j, m[1]>>
             ELSE FirstKeywordFrom(keywords, j + 1, clause_lower)

\* The loop over the keywords, which breaks at the first one that matches:
\* <<its index, match.start() + 1>>, <<0, 0>> if none matches.
FirstKeyword(keywords, clause_lower) == FirstKeywordFrom(keywords, 1, clause_lower)

\* "sub in s"
Contains(s, sub) ==
    \E i \in 1..(Len(s) - Len(sub) + 1) : SubSeq(s, i, i + Len(sub) - 1) = sub

RECURSIVE IntStr(_)
IntStr(n) ==
    IF n < 10 THEN Char(DigitChars, n + 1)
    ELSE IntStr(n \div 10) \o Char(DigitChars, (n % 10) + 1)

RECURSIVE FracStr(_, _)
\* the width fractional digits of f, the trailing zeros dropped, one digit kept
FracStr(f, width) ==
    IF width <= 1 THEN IntStr(f)
    ELSE IF f % 10 = 0 THEN FracStr(f \div 10, width - 1)
    ELSE FracStr(f \div 10, width - 1) \o IntStr(f % 10)

\* str(float) as the f-string formats it: 24.0, 18.5
FloatStr(v) ==
    IF MaxFracDigits = 0 THEN IntStr(v) \o ".0"
    ELSE IntStr(v \div Scale) \o "." \o FracStr(v % Scale, MaxFracDigits)

HighRateExplanation(num, threshold) ==
    "Identified interest rate of " \o FloatStr(num) \o "% which exceeds "
    \o "the typical threshold of " \o FloatStr(threshold) \o "%. This is considered "
    \o "a high interest rate that may result in significant "
    \o "financial burden over time."

ReviewRateExplanation ==
    "Interest rate clause identified. Review the specific rate "
    \o "and terms carefully to understand the total cost of borrowing."

\* the comparison made strict
ExceedsThreshold_Strict(num, threshold) == num > threshold

\* "if num >= threshold"
ExceedsThreshold(num, threshold) == num >= threshold

\* the loop over the extracted numbers: the first one at or over the
\* threshold gives High, none gives Medium
InterestResult(numbers, threshold) ==
    LET hits == { j \in 1..Len(numbers) : ExceedsThreshold(numbers[j], threshold) }
    IN  IF hits # {}
        THEN [severity |-> "High",
              explanation |-> HighRateExplanation(numbers[SetMin(hits)], threshold)]
        ELSE [severity |-> "Medium", explanation |-> ReviewRateExplanation]

_generate_explanation(risk_type, severity) ==
    CASE risk_type = "High Interest Rate" ->
           "This clause mentions interest rates. High interest rates can "
           \o "significantly increase the total amount you'll pay over time. "
           \o "Compare this rate with market standards and consider the impact "
           \o "on your financial obligations."
      [] risk_type = "Hidden Fees" ->
           "This clause mentions additional fees beyond the principal amount. "
           \o "These fees can add up over time and increase the total cost. "
           \o "Review all fee structures carefully to understand the complete "
           \o "financial commitment."
      [] risk_type = "Penalty Clauses" ->
           "This clause contains penalty provisions that may be triggered "
           \o "if you fail to meet certain conditions. Penalties can result in "
           \o "additional charges, increased interest rates, or other financial "
           \o "consequences. Understand the conditions that trigger penalties."
      [] risk_type = "Auto-Renewal" ->
           "This clause indicates automatic renewal of the agreement. "
           \o "You may be bound to continue the contract unless you take "
           \o "specific action to cancel. Be aware of renewal dates and "
           \o "cancellation procedures."
      [] risk_type = "One-Sided Termination" ->
           "This clause allows one party (typically the lender/service provider) "
           \o "to terminate the agreement with minimal notice or at their discretion. "
           \o "This creates an imbalance of power and may leave you without "
           \o "adequate protection or recourse."
      [] risk_type = "Arbitration Clause" ->
           "This clause requires disputes to be resolved through arbitration "
           \o "rather than court. This may limit your ability to pursue legal "
           \o "action or participate in class action lawsuits. Understand your "
           \o "rights and options for dispute resolution."
      [] risk_type = "Variable Interest Rate" ->
           "This clause indicates that the interest rate can change over time. "
           \o "Variable rates may increase, potentially raising your payments "
           \o "significantly. Understand the factors that determine rate changes "
           \o "and potential maximum rates."
      [] risk_type = "Prepayment Penalty" ->
           "This clause imposes penalties for paying off the loan early. "
           \o "This can discourage early repayment and may result in additional "
           \o "costs if you want to pay off the debt ahead of schedule."
      [] OTHER ->
           "This clause contains terms that may pose a " \o Lower(severity) \o " risk. "
           \o "Review carefully and consider seeking professional advice."

\* the lookup under a key the catalog does not have: always the default
BaseSeverity_Default(pattern) == "Medium"

\* pattern_config.get("base_severity", "Medium")
BaseSeverity(pattern) == pattern.base_severity

\* "interest" in risk_type.lower() and "threshold" in pattern_config
IsInterestPattern(pattern) ==
    Contains(Lower(pattern.risk_type), "interest") /\ pattern.has_threshold

\* what _check_pattern returns once a keyword has matched un-negated
MatchResult(clause_original, pattern) ==
    IF IsInterestPattern(pattern)
    THEN InterestResult(extract_numbers(clause_original), pattern.threshold)
    ELSE [severity |-> BaseSeverity(pattern),
          explanation |-> _generate_explanation(pattern.risk_type, BaseSeverity(pattern))]

\* None
NoResult == [severity |-> "", explanation |-> ""]

\* (severity, explanation), or NoResult for None
_check_pattern(clause_lower, clause_original, pattern) ==
    LET m == FirstKeyword(pattern.keywords, clause_lower) IN
    IF m[1] = 0 THEN NoResult
    ELSE IF _has_negative_context(clause_lower, m[2])
    THEN NoResult
    ELSE MatchResult(clause_original, pattern)

\* ------------------------------------------------------------------------
\* State
\* ------------------------------------------------------------------------
VARIABLES
    \* RiskAnalyzer.analyze_document
    text,              \* the argument
    text_none,         \* TRUE when the argument is None
    pc,                \* "start", "clause" (top of the loop over the clauses),
                       \* "pattern" (top of the loop over the catalog),
                       \* "matches" (after the _check_pattern call), "done"
    clauses,           \* split_into_clauses(text, min_length=30)
    ci,                \* the index of clause_text in clauses
    clause_lower,      \* clause_text.lower()
    matches,           \* what _check_pattern returned
    pi,                \* the index of pattern_config in the catalog
    clause_id,         \* str(uuid.uuid4()) of the clause
    uuid_next,         \* the identifiers uuid4 has not given out yet start here
    seen_clauses,      \* the keys already emitted
    identified_risks,  \* the list under construction
    returned,          \* the value returned
    log,               \* history: the _check_pattern calls made, with outcome
    \* RiskAnalyzer._check_pattern
    ck_clause,         \* clause_original
    ck_lower,          \* clause_lower
    ck_pattern,        \* the index of pattern_config in the catalog
    ck_pc,             \* "keywords", "negation", "result", "done"
    ck_kw,             \* the index of keyword_pattern in keywords
    ck_pos,            \* match_position + 1, 0 while nothing has matched
    ck_result,         \* the value returned
    \* split_into_clauses
    sp_text,           \* the argument text
    sp_min,            \* the argument min_length
    sp_pc,             \* "start", "paragraph", "sentence", "done"
    sp_paragraphs,     \* re.split(r'\n\s*\n+', text)
    sp_p,              \* the index of paragraph in paragraphs
    sp_sentences,      \* the sentences of the paragraph
    sp_s,              \* the index of sentence in sentences
    sp_st,             \* clauses, current_clause and the buffers flushed early
    sp_origin,         \* history: the paragraph each entry of clauses is from
    sp_result,         \* the list returned
    sp_from,           \* history: the paragraph each entry of the result is from
    \* extract_numbers
    nm_text,           \* the argument
    nm_pc,             \* "percentages", "numbers", "convert", "done"
    nm_percentages,    \* re.findall(percentage_pattern, text)
    nm_numbers,        \* re.findall(number_pattern, text)
    nm_all,            \* all_numbers
    \* analyze_document called by several threads at once
    runs,              \* the locals of each invocation
    catalog,           \* the class attribute RISK_PATTERNS
    negative_indicators \* the class attribute NEGATIVE_INDICATORS

avars == <<text, text_none, pc, clauses, ci, clause_lower, matches, pi, clause_id, uuid_next,
           seen_clauses, identified_risks, returned, log>>
cvars == <<ck_clause, ck_lower, ck_pattern, ck_pc, ck_kw, ck_pos, ck_result>>
svars == <<sp_text, sp_min, sp_pc, sp_paragraphs, sp_p, sp_sentences, sp_s,
           sp_st, sp_origin, sp_result, sp_from>>
nvars == <<nm_text, nm_pc, nm_percentages, nm_numbers, nm_all>>
pvars == <<runs, catalog, negative_indicators>>
vars == <<avars, cvars, svars, nvars, pvars>>

\* a component no call is running in
IdleAnalyze ==
    /\ text = "" /\ text_none = FALSE /\ pc = "idle" /\ clauses = <<>>
    /\ ci = 0 /\ pi = 0 /\ clause_id = 0 /\ uuid_next = 1
    /\ clause_lower = "" /\ matches = NoResult
    /\ seen_clauses = {} /\ identified_risks = <<>> /\ returned = <<>> /\ log = <<>>
IdleCheck ==
    /\ ck_clause = "" /\ ck_lower = "" /\ ck_pattern = 0 /\ ck_pc = "idle" /\ ck_kw = 0
    /\ ck_pos = 0 /\ ck_result = NoResult
IdleSplit ==
    /\ sp_text = "" /\ sp_min = 0 /\ sp_pc = "idle" /\ sp_paragraphs = <<>>
    /\ sp_p = 0 /\ sp_sentences = <<>> /\ sp_s = 0 /\ sp_st = EmptySplit
    /\ sp_origin = <<>> /\ sp_result = <<>> /\ sp_from = <<>>
IdleNumbers ==
    /\ nm_text = "" /\ nm_pc = "idle" /\ nm_percentages = <<>>
    /\ nm_numbers = <<>> /\ nm_all = <<>>
IdleRuns ==
    /\ runs = <<>> /\ catalog = RISK_PATTERNS
    /\ negative_indicators = NEGATIVE_INDICATORS

\* ------------------------------------------------------------------------
\* RiskAnalyzer.analyze_document, one step per loop iteration
\* ------------------------------------------------------------------------
\* "len(text.strip()) < 50"
MinDocumentLength == 50
\* "split_into_clauses(text, min_length=30)"
ClauseMinLength == 30
\* "clause_text[:100]"
KeyPrefixLength == 100
\* "clause_text[:500]"
TextLimit == 500

\* the length test without the strip()
TooShort_Unstripped(none, t) == none \/ t = "" \/ Len(t) < MinDocumentLength

\* "if not text or len(text.strip()) < 50"
TooShort(none, t) == none \/ t = "" \/ Len(Strip(t)) < MinDocumentLength

\* hash(clause_text[:100] + risk_type): the hashed string stands for its hash
\* (equal strings hash alike; str hashes of different keys are taken to differ)
DedupKey(clause_text, risk_type) == Prefix(clause_text, KeyPrefixLength) \o risk_type

\* the add() left out
SeenAfterFlag_Forgotten(seen, key) == seen

\* seen_clauses.add(clause_hash)
SeenAfterFlag(seen, key) == seen \cup {key}

\* where the loop over the catalog goes on after pattern p: the next pattern
\* ("continue", or the end of the body), or past the catalog ("break")
AfterMiss(p) == p + 1
AfterDuplicate(p) == p + 1
\* the break left out
AfterFlag_NoBreak(p) == p + 1
AfterFlag(p) == NumPatterns + 1

LogEntry(outcome) == [clause |-> ci, pattern |-> pi, outcome |-> outcome]

GoOn(np) ==
    /\ pi' = np
    /\ pc' = IF np > NumPatterns THEN "clause" ELSE "pattern"

ReturnEmpty ==
    /\ pc = "start"
    /\ TooShort(text_none, text)
    /\ returned' = <<>>
    /\ pc' = "done"
    /\ UNCHANGED <<text, text_none, clauses, ci, clause_lower, matches, pi,
                   clause_id, uuid_next, seen_clauses, identified_risks, log>>
    /\ UNCHANGED <<cvars, svars, nvars, pvars>>

Segment ==
    /\ pc = "start"
    /\ ~TooShort(text_none, text)
    /\ clauses' = split_into_clauses(text, ClauseMinLength)
    /\ identified_risks' = <<>>
    /\ seen_clauses' = {}
    /\ ci' = 0
    /\ pc' = "clause"
    /\ UNCHANGED <<text, text_none, clause_lower, matches, pi, clause_id,
                   uuid_next, returned, log>>
    /\ UNCHANGED <<cvars, svars, nvars, pvars>>

NextClause ==
    /\ pc = "clause"
    /\ ci < Len(clauses)
    /\ ci' = ci + 1
    /\ clause_lower' = Lower(clauses[ci + 1])
    /\ clause_id' = uuid_next
    /\ uuid_next' = uuid_next + 1
    /\ pi' = 1
    /\ pc' = "pattern"
    /\ UNCHANGED <<text, text_none, clauses, matches, seen_clauses,
                   identified_risks, returned, log>>
    /\ UNCHANGED <<cvars, svars, nvars, pvars>>

CheckPattern ==
    /\ pc = "pattern"
    /\ matches' = _check_pattern(clause_lower, clauses[ci], RISK_PATTERNS[pi])
    /\ pc' = "matches"
    /\ UNCHANGED <<text, text_none, clauses, ci, clause_lower, pi, clause_id,
                   uuid_next, seen_clauses, identified_risks, returned, log>>
    /\ UNCHANGED <<cvars, svars, nvars, pvars>>

PatternMiss ==
    /\ pc = "matches"
    /\ matches = NoResult
    /\ log' = Append(log, LogEntry("none"))
    /\ GoOn(AfterMiss(pi))
    /\ UNCHANGED <<text, text_none, clauses, ci, clause_lower, matches, clause_id,
                   uuid_next, seen_clauses, identified_risks, returned>>
    /\ UNCHANGED <<cvars, svars, nvars, pvars>>

PatternDuplicate ==
    /\ pc = "matches"
    /\ matches # NoResult
    /\ DedupKey(clauses[ci], RISK_PATTERNS[pi].risk_type) \in seen_clauses
    /\ log' = Append(log, LogEntry("duplicate"))
    /\ GoOn(AfterDuplicate(pi))
    /\ UNCHANGED <<text, text_none, clauses, ci, clause_lower, matches, clause_id,
                   uuid_next, seen_clauses, identified_risks, returned>>
    /\ UNCHANGED <<cvars, svars, nvars, pvars>>

PatternFlag ==
    /\ pc = "matches"
    /\ matches # NoResult
    /\ LET key == DedupKey(clauses[ci], RISK_PATTERNS[pi].risk_type) IN
         /\ key \notin seen_clauses
         /\ seen_clauses' = SeenAfterFlag(seen_clauses, key)
    /\ identified_risks' = Append(identified_risks,
           [clause_id |-> clause_id,
            text |-> Prefix(clauses[ci], TextLimit),
            risk_type |-> RISK_PATTERNS[pi].risk_type,
            severity |-> matches.severity,
            explanation |-> matches.explanation])
    /\ log' = Append(log, LogEntry("flag"))
    /\ GoOn(AfterFlag(pi))
    /\ UNCHANGED <<text, text_none, clauses, ci, clause_lower, matches, clause_id,
                   uuid_next, returned>>
    /\ UNCHANGED <<cvars, svars, nvars, pvars>>

Return ==
    /\ pc = "clause"
    /\ ci = Len(clauses)
    /\ returned' = identified_risks
    /\ pc' = "done"
    /\ UNCHANGED <<text, text_none, clauses, ci, clause_lower, matches, pi,
                   clause_id, uuid_next, seen_clauses, identified_risks, log>>
    /\ UNCHANGED <<cvars, svars, nvars, pvars>>

\* The documents analysed: up to MaxParagraphs paragraphs, each one sentence
\* of ClausePool, and the documents of SpecialDocs.
MaxParagraphs == 2

DocInterestWaived ==
    "The interest rate is waived for the first 12 months, "
    \o "so there is no interest charged during this period."
DocFeesAndTermination ==
    "This agreement includes an annual fee of $50 and a late fee for missed payments. "
    \o "The lender may terminate this agreement at any time without notice "
    \o "and at our discretion, for any reason."
LongLateFee ==
    "A late fee of ten dollars is charged for every payment that arrives after "
    \o "the due date printed on the monthly statement"

ClausePool == {
    DocInterestWaived,
    "A late fee and a penalty apply to every missed payment.",
    "The interest rate of 24% applies to the whole balance.",
    "There is no penalty fee for early repayment of the loan.",
    "Nothing in this sentence is of any concern to anyone.",
    LongLateFee \o " sent by mail.",
    LongLateFee \o " sent by courier, and a penalty applies." }

\* 49 characters between the whitespace, 54 with it
DocPadded == "  \tA late fee and a penalty apply to the repayments.  \n"
\* 50 characters
DocFifty == "A late fee and a penalty apply to every repayment."
\* 52 characters, all whitespace
DocBlank == "                                                  \n\n"

DocPrepayment == "A prepayment penalty applies when the loan is repaid early."
\* "prepayment" starts 77 characters after the "No" that negates "penalty"
DocNoPenaltyThenPrepayment ==
    "No penalty is charged for a payment that is late by only a few days, "
    \o "while a prepayment penalty applies."
\* 127 characters
LongPrepayment ==
    "A prepayment penalty of two percent of the outstanding balance falls due "
    \o "whenever the loan is repaid before the end of the term"

SpecialDocs == {
    DocPrepayment,
    DocPrepayment \o "\n\n" \o DocPrepayment,
    DocNoPenaltyThenPrepayment,
    LongPrepayment \o " in full.\n\n" \o LongPrepayment \o " in part.",
    "A late fee and a prepayment penalty apply to this loan agreement.",
    DocFeesAndTermination,
    "",
    "A late fee applies.",
    DocPadded,
    DocFifty,
    DocBlank }

RECURSIVE DocsOf(_)
DocsOf(n) ==
    IF n = 1 THEN ClausePool
    ELSE { d \o "\n\n" \o c : d \in DocsOf(n - 1), c \in ClausePool }

Docs == SpecialDocs \cup UNION { DocsOf(n) : n \in 1..MaxParagraphs }

Init ==
    /\ \/ text \in Docs /\ text_none = FALSE
       \/ text = "" /\ text_none = TRUE
    /\ pc = "start"
    /\ clauses = <<>> /\ ci = 0 /\ pi = 0 /\ clause_id = 0 /\ uuid_next = 1
    /\ clause_lower = "" /\ matches = NoResult
    /\ seen_clauses = {} /\ identified_risks = <<>> /\ returned = <<>> /\ log = <<>>
    /\ IdleCheck /\ IdleSplit /\ IdleNumbers /\ IdleRuns

Next ==
    \/ ReturnEmpty
    \/ Segment
    \/ NextClause
    \/ CheckPattern
    \/ PatternMiss
    \/ PatternDuplicate
    \/ PatternFlag
    \/ Return

Spec == Init /\ [][Next]_vars

\* ------------------------------------------------------------------------
\* RiskAnalyzer._check_pattern, one step per keyword and per branch
\* ------------------------------------------------------------------------
CkKeywords == RISK_PATTERNS[ck_pattern].keywords

CkReturn(result) ==
    /\ ck_result' = result
    /\ ck_pc' = "done"

\* keyword_pattern does not match: the next keyword
CkKeywordMiss ==
    /\ ck_pc = "keywords"
    /\ ck_kw <= Len(CkKeywords)
    /\ Search(CkKeywords[ck_kw], ck_lower) = <<>>
    /\ ck_kw' = ck_kw + 1
    /\ UNCHANGED <<ck_clause, ck_lower, ck_pattern, ck_pc, ck_pos, ck_result>>
    /\ UNCHANGED <<avars, svars, nvars, pvars>>

\* keyword_pattern matches: match_position is set and the loop breaks
CkKeywordHit ==
    /\ ck_pc = "keywords"
    /\ ck_kw <= Len(CkKeywords)
    /\ LET m == Search(CkKeywords[ck_kw], ck_lower) IN
         /\ m # <<>>
         /\ ck_pos' = m[1]
    /\ ck_pc' = "negation"
    /\ UNCHANGED <<ck_clause, ck_lower, ck_pattern, ck_kw, ck_result>>
    /\ UNCHANGED <<avars, svars, nvars, pvars>>

\* "if not matched_keyword: return None"
CkNoKeyword ==
    /\ ck_pc = "keywords"
    /\ ck_kw > Len(CkKeywords)
    /\ CkReturn(NoResult)
    /\ UNCHANGED <<ck_clause, ck_lower, ck_pattern, ck_kw, ck_pos>>
    /\ UNCHANGED <<avars, svars, nvars, pvars>>

\* "return None  # Skip this match - it's negated"
CkNegated ==
    /\ ck_pc = "negation"
    /\ _has_negative_context(ck_lower, ck_pos)
    /\ CkReturn(NoResult)
    /\ UNCHANGED <<ck_clause, ck_lower, ck_pattern, ck_kw, ck_pos>>
    /\ UNCHANGED <<avars, svars, nvars, pvars>>

\* "Special handling for interest rate patterns"
CkInterest ==
    /\ ck_pc = "negation"
    /\ ~_has_negative_context(ck_lower, ck_pos)
    /\ IsInterestPattern(RISK_PATTERNS[ck_pattern])
    /\ CkReturn(MatchResult(ck_clause, RISK_PATTERNS[ck_pattern]))
    /\ UNCHANGED <<ck_clause, ck_lower, ck_pattern, ck_kw, ck_pos>>
    /\ UNCHANGED <<avars, svars, nvars, pvars>>

\* "return (base_severity, explanation)"
CkGeneric ==
    /\ ck_pc = "negation"
    /\ ~_has_negative_context(ck_lower, ck_pos)
    /\ ~IsInterestPattern(RISK_PATTERNS[ck_pattern])
    /\ CkReturn(MatchResult(ck_clause, RISK_PATTERNS[ck_pattern]))
    /\ UNCHANGED <<ck_clause, ck_lower, ck_pattern, ck_kw, ck_pos>>
    /\ UNCHANGED <<avars, svars, nvars, pvars>>

\* The clauses checked: an interest phrase followed by numbers, and clauses
\* about penalties with and without a negation before the keyword.
InterestHeads == {
    "interest rate",
    "The Interest Rate",
    "no interest rate",
    "the apr is",
    "zero sum, then an interest rate" }

InterestTails == {
    "",
    " of 24%",
    " of 5%",
    " of 18%",
    " of 17.99%",
    " of 18.5 % a year",
    " of 5% and 30 later",
    " of 5% for 24 months",
    " of 30 or 19.5%" }

\* 47 characters: with "no " before it, "no" starts 50 characters before
\* what follows
Filler47 == "is due from the borrower at any of these times,"

PenaltyClauses == {
    "no penalty fee",
    "There is NO penalty fee",
    "There is no penalty fee for the early repayment of the whole outstanding loan balance.",
    "no\tpenalty fee is due",
    "casino penalty and no penalty fee",
    "a domino penalty fee",
    "a penalty applies, but no penalty fee",
    "a penalty fee applies",
    "no " \o Filler47 \o "penalty and no penalty fee",
    "no " \o Filler47 \o " penalty and no penalty fee",
    "piano " \o Filler47 \o "penalty and no penalty fee",
    "the prepayment penalty is waived",
    "penalty waived",
    "The late payment penalty waived for this month." }

CheckClauses ==
    { h \o t : h \in InterestHeads, t \in InterestTails } \cup PenaltyClauses

InitCheck ==
    /\ ck_clause \in CheckClauses
    /\ ck_lower = Lower(ck_clause)
    /\ ck_pattern \in 1..NumPatterns
    /\ ck_pc = "keywords"
    /\ ck_kw = 1
    /\ ck_pos = 0
    /\ ck_result = NoResult
    /\ IdleAnalyze /\ IdleSplit /\ IdleNumbers /\ IdleRuns

NextCheck ==
    \/ CkKeywordMiss
    \/ CkKeywordHit
    \/ CkNoKeyword
    \/ CkNegated
    \/ CkInterest
    \/ CkGeneric

SpecCheck == InitCheck /\ [][NextCheck]_vars

\* ------------------------------------------------------------------------
\* split_into_clauses, one step per paragraph and per sentence
\* ------------------------------------------------------------------------
SpParagraph == clean_text(sp_paragraphs[sp_p])

\* clauses grew from st to st2 while paragraph p was walked
OriginAfter(origin, st, st2, p) ==
    origin \o [k \in 1..(Len(st2.clauses) - Len(st.clauses)) |-> p]

\* "if not text: return []"
SpEmptyText ==
    /\ sp_pc = "start"
    /\ sp_text = ""
    /\ sp_result' = <<>>
    /\ sp_pc' = "done"
    /\ UNCHANGED <<sp_text, sp_min, sp_paragraphs, sp_p, sp_sentences, sp_s,
                   sp_st, sp_origin, sp_from>>
    /\ UNCHANGED <<avars, cvars, nvars, pvars>>

\* "paragraphs = re.split(...)"
SpSplitParagraphs ==
    /\ sp_pc = "start"
    /\ sp_text # ""
    /\ sp_paragraphs' = ParagraphsOf(sp_text)
    /\ sp_p' = 1
    /\ sp_pc' = "paragraph"
    /\ UNCHANGED <<sp_text, sp_min, sp_sentences, sp_s, sp_st, sp_origin,
                   sp_result, sp_from>>
    /\ UNCHANGED <<avars, cvars, nvars, pvars>>

\* "if len(paragraph) < min_length: continue"
SpSkipParagraph ==
    /\ sp_pc = "paragraph"
    /\ sp_p <= Len(sp_paragraphs)
    /\ Len(SpParagraph) < sp_min
    /\ sp_p' = sp_p + 1
    /\ UNCHANGED <<sp_text, sp_min, sp_pc, sp_paragraphs, sp_sentences, sp_s,
                   sp_st, sp_origin, sp_result, sp_from>>
    /\ UNCHANGED <<avars, cvars, nvars, pvars>>

\* "sentences = re.split(...)" and "current_clause = ''"
SpEnterParagraph ==
    /\ sp_pc = "paragraph"
    /\ sp_p <= Len(sp_paragraphs)
    /\ ~(Len(SpParagraph) < sp_min)
    /\ sp_sentences' = SentencesOf(SpParagraph)
    /\ sp_s' = 1
    /\ sp_st' = EnterParagraph(sp_st)
    /\ sp_pc' = "sentence"
    /\ UNCHANGED <<sp_text, sp_min, sp_paragraphs, sp_p, sp_origin, sp_result,
                   sp_from>>
    /\ UNCHANGED <<avars, cvars, nvars, pvars>>

SpStep ==
    /\ sp_st' = SegmentStep(sp_st, sp_sentences[sp_s], sp_min)
    /\ sp_origin' = OriginAfter(sp_origin, sp_st, sp_st', sp_p)
    /\ sp_s' = sp_s + 1
    /\ UNCHANGED <<sp_text, sp_min, sp_pc, sp_paragraphs, sp_p, sp_sentences,
                   sp_result, sp_from>>
    /\ UNCHANGED <<avars, cvars, nvars, pvars>>

\* "if not sentence: continue"
SpBlankSentence ==
    /\ sp_pc = "sentence"
    /\ sp_s <= Len(sp_sentences)
    /\ clean_text(sp_sentences[sp_s]) = ""
    /\ SpStep

\* "If sentence is long enough, make it a clause"
SpLongSentence ==
    /\ sp_pc = "sentence"
    /\ sp_s <= Len(sp_sentences)
    /\ clean_text(sp_sentences[sp_s]) # ""
    /\ Len(clean_text(sp_sentences[sp_s])) >= sp_min
    /\ SpStep

\* "Accumulate short sentences"
SpShortSentence ==
    /\ sp_pc = "sentence"
    /\ sp_s <= Len(sp_sentences)
    /\ clean_text(sp_sentences[sp_s]) # ""
    /\ Len(clean_text(sp_sentences[sp_s])) < sp_min
    /\ SpStep

\* "Add remaining accumulated clause"
SpParagraphEnd ==
    /\ sp_pc = "sentence"
    /\ sp_s > Len(sp_sentences)
    /\ sp_st' = ParagraphEnd(sp_st, sp_min)
    /\ sp_origin' = OriginAfter(sp_origin, sp_st, sp_st', sp_p)
    /\ sp_p' = sp_p + 1
    /\ sp_pc' = "paragraph"
    /\ UNCHANGED <<sp_text, sp_min, sp_paragraphs, sp_sentences, sp_s,
                   sp_result, sp_from>>
    /\ UNCHANGED <<avars, cvars, nvars, pvars>>

\* "return [c for c in clauses if len(c) >= min_length]"
SpReturn ==
    /\ sp_pc = "paragraph"
    /\ sp_p > Len(sp_paragraphs)
    /\ sp_result' = FilterShort(sp_st.clauses, sp_min)
    /\ sp_from' = LET kept == Kept(sp_st.clauses, sp_min)
                  IN  [j \in 1..Len(kept) |-> sp_origin[kept[j]]]
    /\ sp_pc' = "done"
    /\ UNCHANGED <<sp_text, sp_min, sp_paragraphs, sp_p, sp_sentences, sp_s,
                   sp_st, sp_origin>>
    /\ UNCHANGED <<avars, cvars, nvars, pvars>>

\* The texts split: every string of up to MaxSplitLen characters of
\* SplitAlphabet and the texts of SplitSamples, with min_length 1..MaxMinLength.
MaxSplitLen == 5
MaxMinLength == 4

SplitAlphabet == {"a", ".", " ", "\n"}

RECURSIVE StringsOf(_, _)
\* the strings of n characters of alphabet
StringsOf(alphabet, n) ==
    IF n = 0 THEN {""}
    ELSE { t \o c : t \in StringsOf(alphabet, n - 1), c \in alphabet }

SplitSamples == {
    "a. a\n\na",
    "aa. a! a?\n \n. a",
    "a. aaaa. a\n\n\naaaa. a",
    "a a. a\n\t\naaa.a",
    ". . aaaa. a" }

SplitTexts ==
    SplitSamples \cup UNION { StringsOf(SplitAlphabet, n) : n \in 0..MaxSplitLen }

InitSplit ==
    /\ sp_text \in SplitTexts
    /\ sp_min \in 1..MaxMinLength
    /\ sp_pc = "start"
    /\ sp_paragraphs = <<>> /\ sp_p = 0 /\ sp_sentences = <<>> /\ sp_s = 0
    /\ sp_st = EmptySplit /\ sp_origin = <<>> /\ sp_result = <<>> /\ sp_from = <<>>
    /\ IdleAnalyze /\ IdleCheck /\ IdleNumbers /\ IdleRuns

NextSplit ==
    \/ SpEmptyText
    \/ SpSplitParagraphs
    \/ SpSkipParagraph
    \/ SpEnterParagraph
    \/ SpBlankSentence
    \/ SpLongSentence
    \/ SpShortSentence
    \/ SpParagraphEnd
    \/ SpReturn

SpecSplit == InitSplit /\ [][NextSplit]_vars

\* ------------------------------------------------------------------------
\* extract_numbers, one step per pass
\* ------------------------------------------------------------------------
\* "percentages = re.findall(percentage_pattern, text)"
NmPercentages ==
    /\ nm_pc = "percentages"
    /\ nm_percentages' = Groups(percentage_pattern, nm_text)
    /\ nm_pc' = "numbers"
    /\ UNCHANGED <<nm_text, nm_numbers, nm_all>>
    /\ UNCHANGED <<avars, cvars, svars, pvars>>

\* "numbers = re.findall(number_pattern, text)"
NmNumbers ==
    /\ nm_pc = "numbers"
    /\ nm_numbers' = Groups(number_pattern, nm_text)
    /\ nm_pc' = "convert"
    /\ UNCHANGED <<nm_text, nm_percentages, nm_all>>
    /\ UNCHANGED <<avars, cvars, svars, pvars>>

\* the loop "for num_str in percentages + numbers", and the return
NmConvert ==
    /\ nm_pc = "convert"
    /\ nm_all' = ToFloats(JoinPasses(nm_percentages, nm_numbers), 1)
    /\ nm_pc' = "done"
    /\ UNCHANGED <<nm_text, nm_percentages, nm_numbers>>
    /\ UNCHANGED <<avars, cvars, svars, pvars>>

NumAlphabet == {"1", "8", ".", "%", " ", "a"}

RateAndFee == "Rate: 18.5% and fee of 20"

NumTexts ==
    {RateAndFee, "5 % of 12.50", "7.25%, 7.5 %, 10"}
        \cup UNION { StringsOf(NumAlphabet, n) : n \in 0..MaxNumTextLen }

InitNumbers ==
    /\ nm_text \in NumTexts
    /\ nm_pc = "percentages"
    /\ nm_percentages = <<>> /\ nm_numbers = <<>> /\ nm_all = <<>>
    /\ IdleAnalyze /\ IdleCheck /\ IdleSplit /\ IdleRuns

NextNumbers ==
    \/ NmPercentages
    \/ NmNumbers
    \/ NmConvert

SpecNumbers == InitNumbers /\ [][NextNumbers]_vars

\* ------------------------------------------------------------------------
\* RiskAnalyzer.analyze_document called by several threads at once: each
\* invocation has its own locals, the class attributes are shared
\* ------------------------------------------------------------------------
\* the threads calling analyze_document at once
MaxRuns == 2
Runs == 1..MaxRuns

\* an entry of identified_risks, without its clause_id
Risk(clause_text, p, m) ==
    [text |-> Prefix(clause_text, TextLimit),
     risk_type |-> RISK_PATTERNS[p].risk_type,
     severity |-> m.severity,
     explanation |-> m.explanation]

\* the loop over the catalog for one clause, from pattern p on
RECURSIVE PatternsFrom(_, _, _)
PatternsFrom(clause_text, p, acc) ==
    IF p > NumPatterns THEN acc
    ELSE LET m == _check_pattern(Lower(clause_text), clause_text, RISK_PATTERNS[p])
             key == DedupKey(clause_text, RISK_PATTERNS[p].risk_type)
         IN  IF m = NoResult THEN PatternsFrom(clause_text, AfterMiss(p), acc)
             ELSE IF key \in acc.seen_clauses
                  THEN PatternsFrom(clause_text, AfterDuplicate(p), acc)
             ELSE PatternsFrom(clause_text, AfterFlag(p),
                      [seen_clauses |-> SeenAfterFlag(acc.seen_clauses, key),
                       identified_risks |->
                           Append(acc.identified_risks, Risk(clause_text, p, m))])

\* the loop over the clauses, from clause i on
RECURSIVE ClausesLoop(_, _, _)
ClausesLoop(cls, i, acc) ==
    IF i > Len(cls) THEN acc
    ELSE ClausesLoop(cls, i + 1, PatternsFrom(cls[i], 1, acc))

\* analyze_document as a function of its argument: what one call returns
\* when nothing else runs (clause ids left out)
analyze_document(t) ==
    IF TooShort(FALSE, t) THEN <<>>
    ELSE ClausesLoop(split_into_clauses(t, ClauseMinLength), 1,
                     [seen_clauses |-> {}, identified_risks |-> <<>>]).identified_risks

\* "seen_clauses = set()" in a call entered while the sets in existing are live
\* the set taken over from the calls in progress
FreshSet_Inherited(existing) == existing

FreshSet(existing) == {}

LateFeeAndPenalty == "A late fee and a penalty apply to every missed payment."

\* the documents the threads analyse
ParDocs == {
    LateFeeAndPenalty \o "\n\n" \o LateFeeAndPenalty,
    LateFeeAndPenalty,
    "A late fee applies." }

StartRun(t) ==
    [text |-> t, pc |-> "start", clauses |-> <<>>, ci |-> 0, clause_lower |-> "",
     matches |-> NoResult, pi |-> 0, seen_clauses |-> {},
     identified_risks |-> <<>>, returned |-> <<>>]

LiveSets(r) == UNION { runs[o].seen_clauses : o \in Runs \ {r} }

RunGoOn(r, np) ==
    [runs[r] EXCEPT !.pi = np,
                    !.pc = IF np > NumPatterns THEN "clause" ELSE "pattern"]

RunFrame == UNCHANGED <<avars, cvars, svars, nvars, catalog, negative_indicators>>

RunReturnEmpty(r) ==
    /\ runs[r].pc = "start"
    /\ TooShort(FALSE, runs[r].text)
    /\ runs' = [runs EXCEPT ![r].returned = <<>>, ![r].pc = "done"]
    /\ RunFrame

RunSegment(r) ==
    /\ runs[r].pc = "start"
    /\ ~TooShort(FALSE, runs[r].text)
    /\ runs' = [runs EXCEPT
           ![r].clauses = split_into_clauses(runs[r].text, ClauseMinLength),
           ![r].identified_risks = <<>>,
           ![r].seen_clauses = FreshSet(LiveSets(r)),
           ![r].ci = 0,
           ![r].pc = "clause"]
    /\ RunFrame

RunNextClause(r) ==
    /\ runs[r].pc = "clause"
    /\ runs[r].ci < Len(runs[r].clauses)
    /\ runs' = [runs EXCEPT
           ![r].ci = runs[r].ci + 1,
           ![r].clause_lower = Lower(runs[r].clauses[runs[r].ci + 1]),
           ![r].pi = 1,
           ![r].pc = "pattern"]
    /\ RunFrame

RunCheckPattern(r) ==
    /\ runs[r].pc = "pattern"
    /\ runs' = [runs EXCEPT
           ![r].matches = _check_pattern(runs[r].clause_lower,
                              runs[r].clauses[runs[r].ci], catalog[runs[r].pi]),
           ![r].pc = "matches"]
    /\ RunFrame

RunPatternMiss(r) ==
    /\ runs[r].pc = "matches"
    /\ runs[r].matches = NoResult
    /\ runs' = [runs EXCEPT ![r] = RunGoOn(r, AfterMiss(runs[r].pi))]
    /\ RunFrame

RunPatternDuplicate(r) ==
    /\ runs[r].pc = "matches"
    /\ runs[r].matches # NoResult
    /\ DedupKey(runs[r].clauses[runs[r].ci], catalog[runs[r].pi].risk_type)
           \in runs[r].seen_clauses
    /\ runs' = [runs EXCEPT ![r] = RunGoOn(r, AfterDuplicate(runs[r].pi))]
    /\ RunFrame

RunPatternFlag(r) ==
    /\ runs[r].pc = "matches"
    /\ runs[r].matches # NoResult
    /\ LET clause_text == runs[r].clauses[runs[r].ci]
           key == DedupKey(clause_text, catalog[runs[r].pi].risk_type)
           on == RunGoOn(r, AfterFlag(runs[r].pi))
       IN  /\ key \notin runs[r].seen_clauses
           /\ runs' = [runs EXCEPT ![r] =
                  [on EXCEPT
                      !.seen_clauses = SeenAfterFlag(runs[r].seen_clauses, key),
                      !.identified_risks = Append(runs[r].identified_risks,
                          [text |-> Prefix(clause_text, TextLimit),
                           risk_type |-> catalog[runs[r].pi].risk_type,
                           severity |-> runs[r].matches.severity,
                           explanation |-> runs[r].matches.explanation])]]
    /\ RunFrame

RunReturn(r) ==
    /\ runs[r].pc = "clause"
    /\ runs[r].ci = Len(runs[r].clauses)
    /\ runs' = [runs EXCEPT ![r].returned = runs[r].identified_risks,
                            ![r].pc = "done"]
    /\ RunFrame

InitRuns ==
    /\ runs \in [Runs -> { StartRun(t) : t \in ParDocs }]
    /\ catalog = RISK_PATTERNS
    /\ negative_indicators = NEGATIVE_INDICATORS
    /\ IdleAnalyze /\ IdleCheck /\ IdleSplit /\ IdleNumbers

NextRuns ==
    \/ \E r \in Runs : RunReturnEmpty(r)
    \/ \E r \in Runs : RunSegment(r)
    \/ \E r \in Runs : RunNextClause(r)
    \/ \E r \in Runs : RunCheckPattern(r)
    \/ \E r \in Runs : RunPatternMiss(r)
    \/ \E r \in Runs : RunPatternDuplicate(r)
    \/ \E r \in Runs : RunPatternFlag(r)
    \/ \E r \in Runs : RunReturn(r)

SpecRuns == InitRuns /\ [][NextRuns]_vars

\* ------------------------------------------------------------------------
\* Properties of analyze_document (under Spec)
\* ------------------------------------------------------------------------
Flagged(list, risk_type) == { i \in 1..Len(list) : list[i].risk_type = risk_type }

\* C1: analyze_document on the "interest rate is waived ... no interest
\* charged" sentence returns no flagged clause of risk type High Interest Rate.
C1_NoHighInterestFlag ==
    (pc = "done" /\ ~text_none /\ text = DocInterestWaived)
        => Flagged(returned, "High Interest Rate") = {}

\* C2: once a pattern has yielded a result for a clause (flagged or skipped as
\* a duplicate), no later catalog pattern is evaluated for that clause, and the
\* same clause text is never reported under two distinct risk types in a run.
C2_FirstMatchEndsClause ==
    /\ \A a, b \in 1..Len(log) :
         (a < b /\ log[a].clause = log[b].clause) => log[a].outcome = "none"
    /\ \A i, j \in 1..Len(identified_risks) :
         identified_risks[i].text = identified_risks[j].text
            => identified_risks[i].risk_type = identified_risks[j].risk_type

LogKey(e) == <<Prefix(clauses[e.clause], KeyPrefixLength), RISK_PATTERNS[e.pattern].risk_type>>

\* C3: no two flagged clauses of a run share both the first 100 characters of
\* their text and their risk type; a result whose (prefix, risk type) key was
\* already emitted in the run appends nothing.
C3_OneFlagPerKey ==
    /\ \A i, j \in 1..Len(identified_risks) :
         i # j => ~ /\ Prefix(identified_risks[i].text, KeyPrefixLength)
                         = Prefix(identified_risks[j].text, KeyPrefixLength)
                    /\ identified_risks[i].risk_type = identified_risks[j].risk_type
    /\ \A a, b \in 1..Len(log) :
         (a < b /\ log[a].outcome = "flag" /\ LogKey(log[a]) = LogKey(log[b]))
            => log[b].outcome # "flag"
    /\ Len(identified_risks) = Cardinality({ a \in 1..Len(log) : log[a].outcome = "flag" })

\* two different clauses with the same 100-character prefix, the second one's
\* first result skipped as a duplicate
C3_Witness ==
    /\ pc = "done"
    /\ Len(returned) >= 2
    /\ \E a, b \in 1..Len(log) :
         /\ a < b
         /\ log[a].outcome = "flag" /\ log[b].outcome = "duplicate"
         /\ LogKey(log[a]) = LogKey(log[b])
         /\ clauses[log[a].clause] # clauses[log[b].clause]

\* C7: an absent text, or one shorter than 50 characters once stripped, gives
\* the empty list, and no pattern is evaluated.
C7_ShortTextGivesNothing ==
    (pc = "done" /\ (text_none \/ Len(Strip(text)) < MinDocumentLength))
        => (returned = <<>> /\ log = <<>> /\ clauses = <<>>)

\* a text of 50 characters or more that is too short only once stripped
C7_Witness ==
    /\ pc = "done" /\ ~text_none
    /\ Len(text) >= MinDocumentLength
    /\ Len(Strip(text)) < MinDocumentLength /\ Len(Strip(text)) >= ClauseMinLength
    /\ returned = <<>>

\* C9: the annual fee / terminate without notice document gives at least two
\* flagged clauses, in document order a Hidden Fees clause of severity Medium
\* and a One-Sided Termination clause of severity High.
C9_FeesThenTermination ==
    (pc = "done" /\ ~text_none /\ text = DocFeesAndTermination)
        => /\ Len(returned) >= 2
           /\ \E i, j \in 1..Len(returned) :
                /\ i < j
                /\ returned[i].risk_type = "Hidden Fees"
                /\ returned[i].severity = "Medium"
                /\ Contains(returned[i].text, "annual fee")
                /\ returned[j].risk_type = "One-Sided Termination"
                /\ returned[j].severity = "High"
                /\ Contains(returned[j].text, "without notice")

C9_Witness == pc = "done" /\ ~text_none /\ text = DocFeesAndTermination /\ Len(returned) = 2

\* C10: the flagged clauses of a run carry pairwise distinct clause_ids.
C10_DistinctClauseIds ==
    \A i, j \in 1..Len(identified_risks) :
        i # j => identified_risks[i].clause_id # identified_risks[j].clause_id

\* a run that flagged two clauses, one of them matched by a second pattern too
C10_Witness ==
    /\ pc = "done" /\ Len(returned) >= 2
    /\ \E i \in 1..Len(returned) :
         /\ returned[i].risk_type = "Hidden Fees"
         /\ Contains(returned[i].text, "penalty")

\* ------------------------------------------------------------------------
\* Properties of _check_pattern (under SpecCheck)
\* ------------------------------------------------------------------------
\* the steps return what the function returns
CheckStepsAgree ==
    ck_pc = "done" =>
        ck_result = _check_pattern(ck_lower, ck_clause, RISK_PATTERNS[ck_pattern])

\* the call has returned for the high_interest pattern
InterestDone == ck_pc = "done" /\ RISK_PATTERNS[ck_pattern].key = "high_interest"

\* the keyword matched and no negation precedes it
Unnegated == ck_pos # 0 /\ ~_has_negative_context(ck_lower, ck_pos)

CitesRate(explanation, num) ==
    /\ Contains(explanation, "interest rate of " \o FloatStr(num) \o "% which exceeds")
    /\ Contains(explanation,
                "threshold of " \o FloatStr(HighInterestThreshold * Scale) \o "%.")

FirstIndexOf(s, sub) ==
    LET at == { i \in 1..(Len(s) - Len(sub) + 1) : SubSeq(s, i, i + Len(sub) - 1) = sub }
    IN  IF at = {} THEN 0 ELSE SetMin(at)

\* the word "no" followed by whitespace lies in the 50 characters before pos
NoWithin50(lower, pos) ==
    LET w == SubSeq(lower, Max(1, pos - NegationWindow), pos - 1) IN
    \E j \in 1..(Len(w) - 2) :
        /\ SubSeq(w, j, j + 1) = "no"
        /\ Char(w, j + 2) \in Space
        /\ (j = 1 \/ Char(w, j - 1) \notin Word)

SplitStepsAgree ==
    sp_pc = "done" => sp_result = split_into_clauses(sp_text, sp_min)

\* the clauses of the result that come from paragraph p
ClausesFrom(p) == { j \in 1..Len(sp_from) : sp_from[j] = p }

\* C8: with min_length >= 1, a paragraph whose normalized length is under
\* min_length contributes no clause, and a paragraph whose normalized length is
\* exactly min_length contributes at least one, however its punctuation
\* divides it.
C8_ParagraphAtThreshold ==
    (sp_pc = "done" /\ sp_min >= 1) =>
        \A p \in 1..Len(sp_paragraphs) :
            LET n == Len(clean_text(sp_paragraphs[p])) IN
            /\ n < sp_min => ClausesFrom(p) = {}
            /\ n = sp_min => ClausesFrom(p) # {}

\* a paragraph of exactly min_length characters made of two sentences or
\* more, in a text that also has a paragraph that is too short
C8_Witness ==
    /\ sp_pc = "done" /\ sp_min >= 3
    /\ \E p, q \in 1..Len(sp_paragraphs) :
         /\ Len(clean_text(sp_paragraphs[p])) = sp_min
         /\ Len(SentencesOf(clean_text(sp_paragraphs[p]))) >= 2
         /\ ClausesFrom(p) # {}
         /\ Len(clean_text(sp_paragraphs[q])) \in 1..(sp_min - 1)

\* ------------------------------------------------------------------------
\* Properties of extract_numbers (under SpecNumbers)
\* ------------------------------------------------------------------------
\* the steps return what the function returns
NumberStepsAgree == nm_pc = "done" => nm_all = extract_numbers(nm_text)

\* 18.5 and 20.0, scaled
Float18_5 == (185 * Scale) \div 10
Float20 == 20 * Scale

\* C6: extract_numbers("Rate: 18.5% and fee of 20") returns exactly
\* [18.5, 20.0], one value for each literal of the text.
C6_OneValuePerLiteral ==
    (nm_pc = "done" /\ nm_text = RateAndFee) => nm_all = <<Float18_5, Float20>>

\* C6 as amended: the result is [18.5, 18.5, 20.0]: the values of the
\* percentage pass, then the values of the bare-number pass, which reads the
\* numeral of a percentage literal again; text order is kept within each pass.
C6_PercentagesThenAllNumerals ==
    nm_pc = "done" =>
        /\ nm_text = RateAndFee => nm_all = <<Float18_5, Float18_5, Float20>>
        /\ nm_all = ToFloats(nm_percentages, 1) \o ToFloats(nm_numbers, 1)
        /\ Len(nm_all) = Len(nm_percentages) + Len(nm_numbers)

C6_Witness ==
    /\ nm_pc = "done" /\ nm_text = RateAndFee
    /\ nm_percentages = <<"18.5">> /\ nm_numbers = <<"18.5", "20">>

\* ------------------------------------------------------------------------
\* C11: when analyze_document invocations run interleaved, on the same or on
\* different documents, each returns exactly the flagged clauses (texts, risk
\* types, severities, explanations, order) it returns when run alone, and no
\* step changes the pattern catalog or the negation-phrase list.
\* ------------------------------------------------------------------------
AloneResults == [t \in ParDocs |-> analyze_document(t)]

C11_InterleavedAsAlone ==
    /\ \A r \in DOMAIN runs :
           runs[r].pc = "done" => runs[r].returned = AloneResults[runs[r].text]
    /\ catalog = RISK_PATTERNS
    /\ negative_indicators = NEGATIVE_INDICATORS

\* both calls have returned flags for the same clause text, and one of them
\* flagged it while the other held its key in its own set
C11_Witness ==
    /\ DOMAIN runs = Runs
    /\ \A r \in Runs : runs[r].pc = "done" /\ runs[r].returned # <<>>
    /\ runs[1].text # runs[2].text
    /\ runs[1].seen_clauses \cap runs[2].seen_clauses # {}
    /\ Len(runs[1].returned) = 2
    /\ runs[1].returned[1].text = runs[1].returned[2].text

\* ------------------------------------------------------------------------
\* C12: every clause split_into_clauses returns has at least min_length
\* characters; the pending buffer is under min_length whenever a sentence is
\* read, so a buffer flushed early by a long sentence is under min_length and
\* the final filter removes it: the short sentences in it are in no returned
\* clause, and the flushed buffers are all that the filter removes.
\* ------------------------------------------------------------------------
Returned(list) == { list[j] : j \in 1..Len(list) }

C13_PenaltyWaivedSuppressed ==
    ( /\ ck_pc = "done"
      /\ RISK_PATTERNS[ck_pattern].key = "penalty_clauses"
      /\ Contains(ck_lower, "penalty waived")
      /\ Unnegated )
        => ck_result = NoResult

\* ------------------------------------------------------------------------
\* Properties of the catalog order (under Spec)
\* ------------------------------------------------------------------------
PatternIndex(key) == CHOOSE p \in 1..NumPatterns : RISK_PATTERNS[p].key = key

\* what the run logged for pattern key on clause c; "skipped" when the
\* pattern was not evaluated
OutcomeOf(c, key) ==
    LET es == { a \in 1..Len(log) :
                  log[a].clause = c /\ log[a].pattern = PatternIndex(key) }
    IN  IF es = {} THEN "skipped" ELSE log[CHOOSE a \in es : TRUE].outcome

\* the clause has a match of "prepayment\s+penalty" with no negation phrase
\* in the 50 characters before it
UnnegatedPrepayment(c) ==
    LET lower == Lower(clauses[c])
        m == Search(Phrase(<<"prepayment", "penalty">>), lower)
    IN  m # <<>> /\ ~_has_negative_context(lower, m[1])

\* no negation phrase in the 50 characters before the first "penalty"
UnnegatedPenalty(c) ==
    LET lower == Lower(clauses[c])
    IN  ~_has_negative_context(lower, FirstIndexOf(lower, "penalty"))

\* the flags of clause c, as (risk type, severity)
FlagsOf(c) ==
    { <<returned[i].risk_type, returned[i].severity>> :
        i \in { j \in 1..Len(returned) : returned[j].clause_id = c } }

\* a Prepayment Penalty flag comes after no earlier flag for the clause
PrepaymentFlagIsFirstFlag ==
    \A c \in 1..Len(clauses) :
        OutcomeOf(c, "prepayment_penalty") = "flag" =>
            \A p \in 1..(PatternIndex("prepayment_penalty") - 1) :
                OutcomeOf(c, RISK_PATTERNS[p].key) \in {"none", "duplicate"}

====
